---- MODULE Spec2Model ----
(***************************************************************************)
(* The ACME protocol client of automatoes (src/automatoes/acme.py): the    *)
(* v1 client Acme and the v2 client AcmeV2, driven by a caller against a   *)
(* certificate authority whose responses are unconstrained.  One step of   *)
(* the model is one blocking HTTP round trip of a public operation,        *)
(* together with the code that runs up to the next round trip.             *)
(***************************************************************************)
EXTENDS Integers, Sequences, FiniteSets, TLC

(***************************************************************************)
(* Values.  Python's None is the empty tuple and any other value v is the  *)
(* one-element tuple <<v>>, so optional values compare without type clash. *)
(***************************************************************************)
None == <<>>
Some(v) == <<v>>
IsNone(o) == o = <<>>
The(o) == o[1]

\* Bounds of the model.
MaxNonce == 2

(***************************************************************************)
(* URLs and paths.  A string that names a resource is held parsed, as      *)
(* urlparse gives it: scheme, netloc, and the path split at "/" (so "/"    *)
(* is <<"", "">>, "/a/b" is <<"", "a", "b">> and "" is <<"">>).            *)
(***************************************************************************)
Url(scheme, netloc, segs) == [scheme |-> scheme, netloc |-> netloc, path |-> segs]
Rel(segs) == Url("", "", segs)
EmptyText == Rel(<<"">>)

\* str.startswith("http"): the scheme, or for a bare path its first segment.
HttpPrefixed == {"http", "https", "httpd"}
startswith_http(u) ==
    IF u.scheme /= "" THEN u.scheme \in HttpPrefixed
    ELSE u.netloc = "" /\ u.path[1] \in HttpPrefixed

\* urlparse(text).path as urljoin reads it back: a path text that begins
\* with "//" parses as a network-path reference.
urlparse_path(u) ==
    IF Len(u.path) >= 3 /\ u.path[1] = "" /\ u.path[2] = ""
    THEN Url("", u.path[3], <<"">> \o SubSeq(u.path, 4, Len(u.path)))
    ELSE Rel(u.path)

RECURSIVE FilterEmpty(_)
FilterEmpty(s) ==
    IF s = <<>> THEN <<>>
    ELSE IF Head(s) = "" THEN FilterEmpty(Tail(s))
    ELSE <<Head(s)>> \o FilterEmpty(Tail(s))

RECURSIVE ResolveDots(_, _)
ResolveDots(segs, acc) ==
    IF segs = <<>> THEN acc
    ELSE IF Head(segs) = ".."
         THEN ResolveDots(Tail(segs),
                          IF acc = <<>> THEN acc ELSE SubSeq(acc, 1, Len(acc) - 1))
    ELSE IF Head(segs) = "." THEN ResolveDots(Tail(segs), acc)
    ELSE ResolveDots(Tail(segs), Append(acc, Head(segs)))

\* urllib.parse.urljoin(base, url)
urljoin(base, u) ==
    IF u = EmptyText THEN base
    ELSE IF u.scheme /= "" /\ u.scheme /= base.scheme THEN u
    ELSE IF u.netloc /= "" THEN Url(base.scheme, u.netloc, u.path)
    ELSE IF u.path = <<"">> THEN base
    ELSE
      LET bparts == IF base.path[Len(base.path)] /= ""
                    THEN SubSeq(base.path, 1, Len(base.path) - 1)
                    ELSE base.path
          joined == bparts \o u.path
          segments ==
              IF u.path[1] = "" /\ Len(u.path) >= 2 THEN u.path
              ELSE IF Len(joined) <= 2 THEN joined
              ELSE <<joined[1]>>
                   \o FilterEmpty(SubSeq(joined, 2, Len(joined) - 1))
                   \o <<joined[Len(joined)]>>
          resolved0 == ResolveDots(segments, <<>>)
          resolved == IF segments[Len(segments)] \in {".", ".."}
                      THEN Append(resolved0, "") ELSE resolved0
      IN Url(base.scheme, base.netloc,
             IF resolved = <<>> \/ resolved = <<"">> THEN <<"", "">> ELSE resolved)

\* Acme.path(path): a None path has no startswith and raises AttributeError,
\* which the callers of path model through path_raises.
path_raises(p) == IsNone(p)
normalize(base, u) ==
    IF startswith_http(u) THEN urljoin(base, urlparse_path(u)) ELSE urljoin(base, u)

(***************************************************************************)
(* The environment: one account key, the client's construction            *)
(* parameters, and what the certificate authority may answer.             *)
(***************************************************************************)
Clients == {"a", "b"}
Versions == {"v1", "v2"}
AccountKey == "account-key"
BaseUrl == Url("https", "ca.example", <<"", "">>)
DirectoryName == "directory"
\* verify: None (the default), False, or a CA bundle path
Verifies == {None, Some("False"), Some("ca.pem")}
Configs == [version : Versions, url : {BaseUrl}, directory : {DirectoryName},
            verify : Verifies]

Statuses == {200, 201, 204, 409, 500}

Https(netloc, segs) == Url("https", netloc, segs)
RegUrl1 == Https("ca.example", <<"", "acme", "reg", "1">>)
RegUrl2 == Https("other.example:443", <<"", "acme", "reg", "2">>)
AuthzUrl == Https("ca.example:443", <<"", "acme", "authz", "9">>)
ChallengePath == Rel(<<"", "acme", "chall", "7">>)
IssuerUrl == Https("ca.example", <<"", "issuer">>)
TermsUrl == Https("ca.example", <<"", "terms">>)
Locations == {None, Some(RegUrl1), Some(RegUrl2)}
\* a link whose path component begins with "//"
SlashSlashUrl == Https("ca.example", <<"", "", "evil.example", "x">>)
UriArgs == {AuthzUrl, ChallengePath, SlashSlashUrl}

\* The directory documents the v2 server may publish.
Dir1 == [newNonce |-> Https("ca.example", <<"", "acme", "new-nonce">>),
         newAccount |-> Https("ca.example", <<"", "acme", "new-acct">>),
         meta |-> [termsOfService |-> TermsUrl]]
Dir2 == [newNonce |-> Https("ca.example", <<"", "v2", "nonce">>),
         meta |-> [website |-> TermsUrl]]
ErrorDoc == [type |-> "urn:acme:error:serverInternal"]
DirIds == {1, 2}
Directory(i) == IF i = 1 THEN Dir1 ELSE Dir2
DirNames == {"newNonce", "newAccount"}

\* An HTTP response as requests presents it: status_code, headers
\* (Replay-Nonce, Location), links (up, terms-of-service), json() (None when
\* the body does not parse) and content.
Response(status, nonce, location, up, terms, json, content) ==
    [status_code |-> status, replay_nonce |-> nonce, location |-> location,
     link_up |-> up, link_terms |-> terms, json |-> json, content |-> content]

DirResponses(dir) ==
    { Response(200, None, None, None, None, Some(dir), "directory"),
      Response(200, None, None, None, None, None, "not-json"),
      Response(404, None, None, None, None, Some(ErrorDoc), "error") }

\* Responses to a signed POST.  A field that the operation does not use at
\* the response's status is held fixed (the parsed body of the operations
\* that parse one ranges over both cases for every 2xx status); the ones it
\* uses range over every value.
PostResponses(op, version) ==
    { Response(st, None, loc, up, tm,
               IF js THEN Some("document") ELSE None,
               IF op = "issue_certificate" THEN "certificate" ELSE "body") :
        st \in Statuses, loc \in Locations, up \in {None, Some(IssuerUrl)},
        tm \in {None, Some(TermsUrl)}, js \in BOOLEAN }
ReadBy(op, version, r) ==
    LET st == r.status_code
        usesLocation == \/ op = "register" /\ st \in {201, 409}
                        \/ op \in {"new_authorization", "issue_certificate"} /\ st = 201
        usesJson == /\ op \in {"register", "get_registration", "new_authorization"}
                    /\ st \in {200, 201, 204}
    IN /\ (~usesLocation => r.location = None)
       /\ (~usesJson => r.json = None)
       /\ (~(op = "issue_certificate" /\ st = 201) => r.link_up = None)
       /\ (~(op = "register" /\ version = "v1" /\ st = 201) => r.link_terms = None)

(***************************************************************************)
(* crypto.generate_header, crypto.sign_request and crypto.sign_request_v2  *)
(* wrap what acme.py hands them into the JWS envelope.                     *)
(***************************************************************************)
generate_header(key) == [alg |-> "RS256", jwk |-> key]
sign_request(key, header, protected, body) ==
    [header |-> header, protected |-> protected, payload |-> body,
     signature |-> key]
sign_request_v2(key, protected, body) ==
    [protected |-> protected, payload |-> body, signature |-> key]

(***************************************************************************)
(* State.                                                                  *)
(***************************************************************************)
VARIABLES
    config,        \* per client: the constructor's arguments
    account_uri,   \* account.uri of the one account the clients share
    frame,         \* per client: the running call's locals and position
    srvDirectory,  \* the directory the server currently publishes
    srvNonce,      \* the last nonce value the server issued
    srvFresh,      \* the server has answered every nonce request with a new nonce
    lastPost,      \* protected nonce of the latest signed POST (None before any)
    lastReg        \* Location of the latest 201 answer to a registration

vars == <<config, account_uri, frame, srvDirectory, srvNonce, srvFresh,
          lastPost, lastReg>>

(***************************************************************************)
(* Results and errors handed to the caller.                                *)
(***************************************************************************)
Result(kind, uri, contents, aux) ==
    [kind |-> kind, uri |-> uri, contents |-> contents, aux |-> aux]
NoResult == Result("", None, None, None)
Raise(kind) == Result(kind, None, None, None)
Errors == {"AcmeError", "AccountAlreadyExistsError", "AttributeError",
           "KeyError", "ValueError"}
\* RegistrationResult(contents, uri, terms)
RegistrationResult(contents, uri, terms) ==
    Result("RegistrationResult", uri, contents, terms)
\* NewAuthorizationResult(contents, uri)
NewAuthorizationResult(contents, uri) ==
    Result("NewAuthorizationResult", uri, contents, None)
\* IssuanceResult(certificate, location, intermediate)
IssuanceResult(certificate, location, intermediate) ==
    Result("IssuanceResult", location, Some(certificate), intermediate)
AccountAlreadyExistsError(uri) == Result("AccountAlreadyExistsError", uri, None, None)
ReturnTrue == Result("True", None, None, None)

\* _json(response): the parsed body, or AcmeError when it does not parse
json_(response) ==
    IF IsNone(response.json) THEN Raise("AcmeError")
    ELSE Result("json", None, response.json, None)

\* str(status_code).startswith("2"): the leading decimal digit
RECURSIVE LeadingDigit(_)
LeadingDigit(n) == IF n < 10 THEN n ELSE LeadingDigit(n \div 10)
startswith_2(status_code) == LeadingDigit(status_code) = 2

(***************************************************************************)
(* Transport: Acme.get, Acme.post, AcmeV2.head, AcmeV2.post.               *)
(***************************************************************************)
DEFAULT_HEADERS == [User_Agent |-> "automatoes"]
Truthy(v) == v \notin {None, Some("False")}
\* kwargs = {'headers': _headers}; if self.verify: kwargs['verify'] = self.verify
request_kwargs(headers, verify) ==
    IF Truthy(verify) THEN [headers |-> headers, verify |-> The(verify)]
    ELSE [headers |-> headers]
Request(method, url, kwargs, body, reply) ==
    [method |-> method, url |-> url, kwargs |-> kwargs, body |-> body,
     reply |-> reply]

\* Acme.get(path, headers)
get(cfg, p, headers, reply) ==
    Request("GET", normalize(cfg.url, p),
            request_kwargs(headers @@ DEFAULT_HEADERS, cfg.verify), None, reply)
\* AcmeV2.head(path, headers)
head(cfg, p, headers, reply) ==
    Request("HEAD", normalize(cfg.url, p),
            request_kwargs(headers @@ DEFAULT_HEADERS, cfg.verify), None, reply)

\* mutant: a nonce kept from construction instead of the header just fetched
get_nonce_reused(response) == Some(0)
\* mutant: a placeholder nonce when the header is absent
get_nonce_placeholder(response) ==
    IF IsNone(response.replay_nonce) THEN Some(0) ELSE response.replay_nonce
\* get_nonce: the Replay-Nonce header of the nonce response
get_nonce(response) == response.replay_nonce

\* mutant: the nonce read from a slot all clients of the account share,
\* which holds the nonce issued last
Acme_get_headers_shared(key, nonce) ==
    [header |-> generate_header(key),
     protected |-> [nonce |-> IF IsNone(nonce) THEN nonce ELSE Some(srvNonce)]
                   @@ generate_header(key)]
\* Acme.get_headers: (header, protected)
Acme_get_headers(key, nonce) ==
    [header |-> generate_header(key),
     protected |-> [nonce |-> nonce] @@ generate_header(key)]
\* AcmeV2.get_headers(url): protected
AcmeV2_get_headers(key, nonce, url) ==
    LET protected_header == [nonce |-> nonce] @@ generate_header(key)
    IN IF ~IsNone(url) THEN [url |-> The(url)] @@ protected_header
       ELSE protected_header

\* mutant: the path argument handed on without self.path()
AcmeV2_post_url_raw(cfg, p) == Some(p)
\* the url AcmeV2.post hands to get_headers
AcmeV2_post_url(cfg, p) == Some(normalize(cfg.url, p))

\* Acme.post(path, body, headers): the request sent once the nonce is known
Acme_post(cfg, key, p, body, headers, nonce, reply) ==
    LET h == Acme_get_headers(key, nonce)
    IN Request("POST", normalize(cfg.url, p),
               request_kwargs(headers @@ [Content_Type |-> "application/json"]
                                      @@ DEFAULT_HEADERS, cfg.verify),
               Some(sign_request(key, h.header, h.protected, body)), reply)
\* AcmeV2.post(path, body, headers)
AcmeV2_post(cfg, key, p, body, headers, nonce, reply) ==
    LET protected == AcmeV2_get_headers(key, nonce, AcmeV2_post_url(cfg, p))
    IN Request("POST", normalize(cfg.url, p),
               request_kwargs(headers @@ [Content_Type |-> "application/jose+json"]
                                      @@ DEFAULT_HEADERS, cfg.verify),
               Some(sign_request_v2(key, protected, body)), reply)
post(cfg, key, p, body, headers, nonce, reply) ==
    IF cfg.version = "v1" THEN Acme_post(cfg, key, p, body, headers, nonce, reply)
    ELSE AcmeV2_post(cfg, key, p, body, headers, nonce, reply)

(***************************************************************************)
(* The public operations: what each one posts, and how each one reads the  *)
(* response.  A request is (path, body, headers) as passed to self.post.   *)
(***************************************************************************)
NoHeaders == [h \in {} |-> ""]
Email == "admin@example.org"
Domain == "example.org"
PostArgs(p, body, headers) == [path |-> p, body |-> body, headers |-> headers]

\* Acme.register: self.post("/acme/new-reg", {...})
Acme_register_request ==
    PostArgs(Some(Rel(<<"", "acme", "new-reg">>)),
             [resource |-> "new-reg", contact |-> <<"mailto", Email>>], NoHeaders)
\* AcmeV2.register: self.post(self.url_from_directory('newAccount'), payload)
AcmeV2_register_request(newAccount) ==
    PostArgs(newAccount,
             [termsOfServiceAgreed |-> TRUE, contact |-> <<"mailto", Email>>],
             NoHeaders)
\* get_registration: self.post(self.account.uri, {'resource': "reg"})
get_registration_request(uri) ==
    PostArgs(uri, [resource |-> "reg"], NoHeaders)
\* update_registration: params = params or {}; params['resource'] = "reg"
update_registration_request(uri, params) ==
    PostArgs(uri,
             [resource |-> "reg"] @@ (IF IsNone(params) THEN NoHeaders ELSE The(params)),
             NoHeaders)
\* update_registration, lines 115-116: the caller's mapping after
\* `params = params or {}` and `params['resource'] = "reg"`; an empty or
\* absent mapping is replaced by a new one and left alone
update_registration_params(params) ==
    IF IsNone(params) \/ The(params) = NoHeaders THEN params
    ELSE Some([resource |-> "reg"] @@ The(params))
\* new_authorization: self.post('/acme/new-authz', {...})
new_authorization_request ==
    PostArgs(Some(Rel(<<"", "acme", "new-authz">>)),
             [resource |-> "new-authz",
              identifier |-> [type |-> "dns", value |-> Domain]], NoHeaders)
\* validate_authorization: self.post(uri, {...})
validate_authorization_request(uri) ==
    PostArgs(Some(uri),
             [resource |-> "challenge", type |-> "http-01",
              keyAuthorization |-> "token.thumbprint"], NoHeaders)
\* issue_certificate: self.post('/acme/new-cert', {...}, headers=http_headers)
issue_certificate_request ==
    PostArgs(Some(Rel(<<"", "acme", "new-cert">>)),
             [resource |-> "new-cert", csr |-> "csr"],
             [Accept |-> "application/pkix-cert"])
\* revoke_certificate: self.post('/acme/revoke-cert', {...})
revoke_certificate_request ==
    PostArgs(Some(Rel(<<"", "acme", "revoke-cert">>)),
             [resource |-> "revoke-cert", certificate |-> "cert"], NoHeaders)

\* What the code does with the response of its POST: the value it assigns to
\* account.uri (assign), where it goes next, and its result when it is done.
Outcome(assign, next, result) == [assign |-> assign, next |-> next, result |-> result]
Finish(result) == Outcome(None, "done", result)

\* mutant: any 2xx status taken for success
Acme_register_any2xx(response) ==
    LET uri == response.location
    IN IF startswith_2(response.status_code)
       THEN LET contents == json_(response)
            IN Outcome(Some(uri), "done",
                       IF contents.kind \in Errors THEN contents
                       ELSE RegistrationResult(contents.contents, uri,
                                               response.link_terms))
       ELSE IF response.status_code = 409
       THEN Finish(AccountAlreadyExistsError(uri))
       ELSE Finish(Raise("AcmeError"))
\* mutant: no branch for 409
AcmeV2_register_no409(response) ==
    LET uri == response.location
    IN IF response.status_code = 201
       THEN Outcome(Some(uri), "dir_terms", NoResult)
       ELSE Finish(Raise("AcmeError"))
\* Acme.register, lines 84-98
Acme_register(response) ==
    LET uri == response.location
    IN IF response.status_code = 201
       THEN LET terms == response.link_terms
                contents == json_(response)
            IN Outcome(Some(uri), "done",
                       IF contents.kind \in Errors THEN contents
                       ELSE RegistrationResult(contents.contents, uri, terms))
       ELSE IF response.status_code = 409
       THEN Finish(AccountAlreadyExistsError(uri))
       ELSE Finish(Raise("AcmeError"))

\* AcmeV2.register, lines 296-311, up to the call of terms_from_directory
AcmeV2_register(response) ==
    LET uri == response.location
    IN IF response.status_code = 201
       THEN Outcome(Some(uri), "dir_terms", NoResult)
       ELSE IF response.status_code = 409
       THEN Finish(AccountAlreadyExistsError(uri))
       ELSE Finish(Raise("AcmeError"))

\* AcmeV2.terms_from_directory
terms_from_directory(response) ==
    IF response.status_code = 200
    THEN IF IsNone(response.json) THEN Raise("ValueError")
         ELSE LET d == The(response.json)
              IN IF "meta" \in DOMAIN d /\ "termsOfService" \in DOMAIN d.meta
                 THEN Result("value", Some(d.meta.termsOfService), None, None)
                 ELSE Result("value", None, None, None)
    ELSE Result("value", None, None, None)

\* AcmeV2.register, lines 302-308: terms, then RegistrationResult
AcmeV2_register_result(response, dirResponse) ==
    LET terms == terms_from_directory(dirResponse)
        contents == json_(response)
    IN IF terms.kind \in Errors THEN terms
       ELSE IF contents.kind \in Errors THEN contents
       ELSE RegistrationResult(contents.contents, response.location, terms.uri)

\* mutant: the endpoint of a fixed directory instead of the fetched one
url_from_directory_hardcoded(response, what_url) ==
    IF response.status_code = 200
    THEN Result("value", Some(Dir1[what_url]), None, None)
    ELSE Result("value", None, None, None)
\* AcmeV2.url_from_directory
url_from_directory(response, what_url) ==
    IF response.status_code = 200
    THEN IF IsNone(response.json) THEN Raise("ValueError")
         ELSE IF what_url \notin DOMAIN The(response.json) THEN Raise("KeyError")
         ELSE Result("value", Some(The(response.json)[what_url]), None, None)
    ELSE Result("value", None, None, None)

get_registration(response) ==
    IF startswith_2(response.status_code) THEN Finish(json_(response))
    ELSE Finish(Raise("AcmeError"))

\* mutant: a failed POST is tried again with a new nonce
update_registration_retry(response) ==
    IF startswith_2(response.status_code) THEN Finish(ReturnTrue)
    ELSE Outcome(None, "nonce", NoResult)
update_registration(response) ==
    IF startswith_2(response.status_code) THEN Finish(ReturnTrue)
    ELSE Finish(Raise("AcmeError"))

\* mutant: a refused authorization is requested again with a new nonce
new_authorization_again(response) ==
    IF response.status_code = 201
    THEN LET contents == json_(response)
         IN Finish(IF contents.kind \in Errors THEN contents
                   ELSE NewAuthorizationResult(contents.contents, response.location))
    ELSE Outcome(None, "nonce", NoResult)
new_authorization(response) ==
    IF response.status_code = 201
    THEN LET contents == json_(response)
         IN Finish(IF contents.kind \in Errors THEN contents
                   ELSE NewAuthorizationResult(contents.contents, response.location))
    ELSE Finish(Raise("AcmeError"))

\* mutant: only 200 taken for success
validate_authorization_only200(response) ==
    IF response.status_code = 200 THEN Finish(ReturnTrue)
    ELSE Finish(Raise("AcmeError"))
validate_authorization(response) ==
    IF startswith_2(response.status_code) THEN Finish(ReturnTrue)
    ELSE Finish(Raise("AcmeError"))

\* mutant: the status is checked before the body is parsed
get_authorization_checked(response) ==
    IF ~startswith_2(response.status_code) \/ IsNone(response.json)
    THEN Raise("AcmeError")
    ELSE Result("json", None, response.json, None)
\* get_authorization: response.json(), whatever the status
get_authorization(response) ==
    IF IsNone(response.json) THEN Raise("AcmeError")
    ELSE Result("json", None, response.json, None)

\* mutant: the Link rel="up" relation ignored
issue_certificate_nochain(response) ==
    IF response.status_code = 201
    THEN Finish(IssuanceResult(response.content, response.location, None))
    ELSE Finish(Raise("AcmeError"))
\* issue_certificate, lines 164-175: with a Link rel="up" the chain is
\* fetched before the result is built
issue_certificate(response) ==
    IF response.status_code = 201
    THEN LET chain == response.link_up
         IN IF ~IsNone(chain) THEN Outcome(None, "chain", NoResult)
            ELSE Finish(IssuanceResult(response.content, response.location, chain))
    ELSE Finish(Raise("AcmeError"))

\* issue_certificate, lines 168-169: requests.get(chain['url'], headers=DEFAULT_HEADERS)
chain_request(response, reply) ==
    Request("GET", The(response.link_up), [headers |-> DEFAULT_HEADERS], None, reply)
issue_certificate_result(response, chainResponse) ==
    IssuanceResult(response.content, response.location, Some(chainResponse.content))

\* mutant: any 2xx status taken for success
revoke_certificate_any2xx(response) ==
    IF startswith_2(response.status_code) THEN Finish(ReturnTrue)
    ELSE Finish(Raise("AcmeError"))
revoke_certificate(response) ==
    IF response.status_code = 200 THEN Finish(ReturnTrue)
    ELSE Finish(Raise("AcmeError"))

Ops == {"register", "get_registration", "update_registration",
        "new_authorization", "validate_authorization", "get_authorization",
        "issue_certificate", "revoke_certificate", "url_from_directory"}

\* the arguments of the operation's self.post call
OpRequest(version, op, arg, params, uri) ==
    CASE op = "register" ->
           IF version = "v1" THEN Acme_register_request
           ELSE AcmeV2_register_request(None)
      [] op = "get_registration" -> get_registration_request(uri)
      [] op = "update_registration" -> update_registration_request(uri, params)
      [] op = "new_authorization" -> new_authorization_request
      [] op = "validate_authorization" -> validate_authorization_request(The(arg))
      [] op = "issue_certificate" -> issue_certificate_request
      [] OTHER -> revoke_certificate_request

\* the operation's reading of the POST response
OpOutcome(version, op, response) ==
    CASE op = "register" ->
           IF version = "v1" THEN Acme_register(response)
           ELSE AcmeV2_register(response)
      [] op = "get_registration" -> get_registration(response)
      [] op = "update_registration" -> update_registration(response)
      [] op = "new_authorization" -> new_authorization(response)
      [] op = "validate_authorization" -> validate_authorization(response)
      [] op = "issue_certificate" -> issue_certificate(response)
      [] OTHER -> revoke_certificate(response)

(***************************************************************************)
(* A call frame: the operation, its arguments, the locals of post() and    *)
(* the requests the call has sent so far.                                  *)
(***************************************************************************)
IdleFrame ==
    [pc |-> "idle", op |-> "", arg |-> None, name |-> "", uri0 |-> None,
     path |-> None, body |-> None, headers |-> NoHeaders, nonce_url |-> None,
     nonce |-> None, response |-> None, log |-> <<>>, result |-> NoResult,
     params0 |-> None, params |-> None]

Done(f, result) == [f EXCEPT !.pc = "done", !.result = result]
Sent(f, request) == [f EXCEPT !.log = Append(@, request)]

ParamsArgs == {None, Some(NoHeaders), Some([agreement |-> "terms-v1"])}

Init ==
    /\ \E cfg \in Configs : config = [c \in Clients |-> cfg]
    /\ account_uri \in {None, Some(RegUrl1)}
    /\ frame = [c \in Clients |-> IdleFrame]
    /\ srvDirectory = 1
    /\ srvNonce = 0
    /\ srvFresh = TRUE
    /\ lastPost = None
    /\ lastReg = None

\* The caller invokes one of the operations ops on client c; the code runs
\* up to its first HTTP request.
Invoke(c, ops) ==
    /\ frame[c].pc = "idle"
    /\ \E op \in ops, arg \in {None} \cup {Some(u) : u \in UriArgs},
          name \in DirNames \cup {""}, params \in ParamsArgs :
         LET cfg == config[c]
             f0 == [IdleFrame EXCEPT !.op = op, !.arg = arg, !.name = name,
                                     !.uri0 = account_uri, !.params0 = params,
                                     !.params = IF op = "update_registration"
                                                THEN update_registration_params(params)
                                                ELSE params]
         IN /\ (op \in {"validate_authorization", "get_authorization"}) = ~IsNone(arg)
            /\ (op = "url_from_directory") = (name /= "")
            /\ op = "url_from_directory" => cfg.version = "v2"
            /\ op /= "update_registration" => IsNone(params)
            /\ frame' = [frame EXCEPT ![c] =
                 IF op = "url_from_directory" THEN [f0 EXCEPT !.pc = "dir_lookup"]
                 ELSE IF op = "get_authorization"
                 THEN [f0 EXCEPT !.pc = "get", !.path = arg]
                 ELSE LET req == OpRequest(cfg.version, op, arg, params, account_uri)
                          f1 == [f0 EXCEPT !.path = req.path, !.body = Some(req.body),
                                           !.headers = req.headers]
                      IN IF cfg.version = "v1" THEN [f1 EXCEPT !.pc = "nonce"]
                         ELSE IF op = "register" THEN [f1 EXCEPT !.pc = "dir_acct"]
                         ELSE IF path_raises(req.path)
                         THEN Done(f1, Raise("AttributeError"))
                         ELSE [f1 EXCEPT !.pc = "dir_nonce"]]
    /\ UNCHANGED <<config, account_uri, srvDirectory, srvNonce, srvFresh,
                   lastPost, lastReg>>

\* One caller: a call starts when no other call is running.
Call(c) ==
    /\ \A d \in Clients : frame[d].pc = "idle"
    /\ Invoke(c, Ops)

\* AcmeV2.get_directory and the code that reads its response.
DirGet(c) ==
    /\ frame[c].pc \in {"dir_lookup", "dir_acct", "dir_nonce", "dir_terms"}
    /\ \E r \in DirResponses(Directory(srvDirectory)) :
         LET cfg == config[c]
             f0 == frame[c]
             f == Sent(f0, get(cfg, Rel(<<"", cfg.directory>>), NoHeaders, r))
         IN frame' = [frame EXCEPT ![c] =
              CASE f0.pc = "dir_lookup" -> Done(f, url_from_directory(r, f0.name))
                [] f0.pc = "dir_acct" ->
                     LET v == url_from_directory(r, "newAccount")
                     IN IF v.kind \in Errors THEN Done(f, v)
                        ELSE IF path_raises(AcmeV2_register_request(v.uri).path)
                        THEN Done([f EXCEPT !.path = v.uri], Raise("AttributeError"))
                        ELSE [f EXCEPT !.path = AcmeV2_register_request(v.uri).path,
                                       !.pc = "dir_nonce"]
                [] f0.pc = "dir_nonce" ->
                     LET v == url_from_directory(r, "newNonce")
                     IN IF v.kind \in Errors THEN Done(f, v)
                        ELSE IF path_raises(v.uri) THEN Done(f, Raise("AttributeError"))
                        ELSE [f EXCEPT !.nonce_url = v.uri, !.pc = "nonce"]
                [] OTHER ->
                     Done(f, AcmeV2_register_result(The(f0.response), r))]
    /\ UNCHANGED <<config, account_uri, srvDirectory, srvNonce, srvFresh,
                   lastPost, lastReg>>

\* The nonce request of get_nonce: v1 GETs /directory, v2 HEADs newNonce.
NonceGet(c) ==
    /\ frame[c].pc = "nonce"
    /\ \E n \in {Some(srvNonce + 1), Some(srvNonce), None} :
         LET cfg == config[c]
             f0 == frame[c]
             r == Response(200, n, None, None, None, None, "")
             request ==
                 IF cfg.version = "v1"
                 THEN get(cfg, Rel(<<"", "directory">>), NoHeaders, r)
                 ELSE head(cfg, The(f0.nonce_url), [resource |-> "new-reg"], r)
             f == [Sent(f0, request) EXCEPT !.nonce = get_nonce(r)]
         IN /\ n = Some(srvNonce + 1) => srvNonce < MaxNonce
            /\ n = Some(srvNonce) => srvNonce > 0
            /\ srvNonce' = IF n = Some(srvNonce + 1) THEN srvNonce + 1 ELSE srvNonce
            /\ srvFresh' = (srvFresh /\ n = Some(srvNonce + 1))
            /\ frame' = [frame EXCEPT ![c] =
                 IF path_raises(f0.path) THEN Done(f, Raise("AttributeError"))
                 ELSE [f EXCEPT !.pc = "post"]]
    /\ UNCHANGED <<config, account_uri, srvDirectory, lastPost, lastReg>>

\* The signed POST of post(), and the operation's reading of the response.
SignedPost(c) ==
    /\ frame[c].pc = "post"
    /\ \E r \in PostResponses(frame[c].op, config[c].version) :
         LET cfg == config[c]
             f0 == frame[c]
             request == post(cfg, AccountKey, The(f0.path), The(f0.body),
                             f0.headers, f0.nonce, r)
             out == OpOutcome(cfg.version, f0.op, r)
             f == [Sent(f0, request) EXCEPT !.response = Some(r)]
         IN /\ ReadBy(f0.op, cfg.version, r)
            /\ frame' = [frame EXCEPT ![c] =
                 [f EXCEPT !.pc = out.next, !.result = out.result]]
            /\ account_uri' = IF IsNone(out.assign) THEN account_uri
                              ELSE The(out.assign)
            /\ lastPost' = Some(The(request.body).protected.nonce)
            /\ lastReg' = IF f0.op = "register" /\ r.status_code = 201
                          THEN r.location ELSE lastReg
    /\ UNCHANGED <<config, srvDirectory, srvNonce, srvFresh>>

\* issue_certificate's fetch of the issuer certificate.
ChainGet(c) ==
    /\ frame[c].pc = "chain"
    /\ \E content \in {"issuer-certificate", ""} :
         LET f0 == frame[c]
             r == Response(200, None, None, None, None, None, content)
             f == Sent(f0, chain_request(The(f0.response), r))
         IN frame' = [frame EXCEPT ![c] =
              Done(f, issue_certificate_result(The(f0.response), r))]
    /\ UNCHANGED <<config, account_uri, srvDirectory, srvNonce, srvFresh,
                   lastPost, lastReg>>

\* get_authorization's GET.
PlainGet(c) ==
    /\ frame[c].pc = "get"
    /\ \E st \in Statuses, js \in BOOLEAN :
         LET f0 == frame[c]
             r == Response(st, None, None, None, None,
                           IF js THEN Some("document") ELSE None, "body")
             f == Sent(f0, get(config[c], The(f0.path), NoHeaders, r))
         IN frame' = [frame EXCEPT ![c] = Done(f, get_authorization(r))]
    /\ UNCHANGED <<config, account_uri, srvDirectory, srvNonce, srvFresh,
                   lastPost, lastReg>>

\* The call returns or raises to the caller.
Return(c) ==
    /\ frame[c].pc = "done"
    /\ frame' = [frame EXCEPT ![c] = IdleFrame]
    /\ UNCHANGED <<config, account_uri, srvDirectory, srvNonce, srvFresh,
                   lastPost, lastReg>>

\* The server publishes another directory document.
ServerUpdateDirectory ==
    /\ \E i \in DirIds : i /= srvDirectory /\ srvDirectory' = i
    /\ UNCHANGED <<config, account_uri, frame, srvNonce, srvFresh, lastPost,
                   lastReg>>

Next ==
    \/ \E c \in Clients : Call(c)
    \/ \E c \in Clients : DirGet(c)
    \/ \E c \in Clients : NonceGet(c)
    \/ \E c \in Clients : SignedPost(c)
    \/ \E c \in Clients : ChainGet(c)
    \/ \E c \in Clients : PlainGet(c)
    \/ \E c \in Clients : Return(c)
    \/ ServerUpdateDirectory

Spec == Init /\ [][Next]_vars

(***************************************************************************)
(* Two callers, one per client, on the one shared account: a call on one   *)
(* client starts while a call on the other is between its HTTP requests.   *)
(***************************************************************************)
ConcOps == {"update_registration", "revoke_certificate"}

InitConc ==
    /\ \E cfg \in {g \in Configs : IsNone(g.verify)} : config = [c \in Clients |-> cfg]
    /\ account_uri = Some(RegUrl1)
    /\ frame = [c \in Clients |-> IdleFrame]
    /\ srvDirectory = 1
    /\ srvNonce = 0
    /\ srvFresh = TRUE
    /\ lastPost = None
    /\ lastReg = None

CallConc(c) == Invoke(c, ConcOps)

NextConc ==
    \/ \E c \in Clients : CallConc(c)
    \/ \E c \in Clients : DirGet(c)
    \/ \E c \in Clients : NonceGet(c)
    \/ \E c \in Clients : SignedPost(c)
    \/ \E c \in Clients : Return(c)

SpecConc == InitConc /\ [][NextConc]_vars

(***************************************************************************)
(* Properties.                                                             *)
(***************************************************************************)
IsPost(e) == e.method = "POST"
Protected(e) == The(e.body).protected
Payload(e) == The(e.body).payload
Last(log) == log[Len(log)]
Answered(f) == ~IsNone(f.response)
Finished(f, op) == f.pc = "done" /\ f.op = op /\ Answered(f)

\* C1: when the server answers every nonce request with a new Replay-Nonce,
\* every signed POST carries the nonce returned to the nonce request made
\* just before it in the same call, and that nonce differs from the one the
\* preceding signed POST carried.
C1_FreshNoncePerPost ==
    [][\A c \in Clients :
         (frame[c].pc = "post" /\ frame'[c].pc /= "post") =>
            LET log == frame'[c].log
                e == Last(log)
            IN /\ IsPost(e)
               /\ Len(log) >= 2
               /\ log[Len(log) - 1].method \in {"GET", "HEAD"}
               /\ Protected(e).nonce = log[Len(log) - 1].reply.replay_nonce
               /\ (srvFresh' /\ ~IsNone(lastPost)) =>
                     Protected(e).nonce /= The(lastPost)]_vars

\* C1 witness: with a server that always issued new nonces, a registration
\* was posted and answered 201, and a later get_registration posted the
\* second nonce.
C1_Witness ==
    /\ srvFresh /\ srvNonce = 2 /\ lastReg = Some(RegUrl2)
    /\ \E c \in Clients :
         /\ Finished(frame[c], "get_registration")
         /\ Protected(Last(frame[c].log)).nonce = Some(2)
         /\ lastPost = Some(Some(2))

\* C2 as stated: register classifies by status alone; 201 returns a
\* RegistrationResult with uri = Location = account.uri, 409 raises
\* AccountAlreadyExistsError with the Location, anything else AcmeError.
C2_RegisterByStatus ==
    \A c \in Clients :
       Finished(frame[c], "register") =>
          LET r == The(frame[c].response)
              res == frame[c].result
          IN /\ r.status_code = 201 =>
                   /\ res.kind = "RegistrationResult"
                   /\ res.uri = r.location
                   /\ account_uri = r.location
             /\ r.status_code = 409 => res = AccountAlreadyExistsError(r.location)
             /\ r.status_code \notin {201, 409} => res = Raise("AcmeError")

\* C2 amended: a 201 whose body parses as JSON returns a RegistrationResult
\* whose uri is the Location and sets account.uri to it; a 201 whose body
\* does not parse raises AcmeError (in AcmeV2 the terms lookup runs first,
\* and its ValueError is what is raised when the directory it fetches answers
\* 200 with a body that does not parse); 409 raises
\* AccountAlreadyExistsError with the Location; every other status raises
\* AcmeError.
C2_RegisterByStatusAndBody ==
    \A c \in Clients :
       Finished(frame[c], "register") =>
          LET r == The(frame[c].response)
              res == frame[c].result
              termsReply == Last(frame[c].log).reply
              termsFails == /\ config[c].version = "v2"
                            /\ termsReply.status_code = 200
                            /\ IsNone(termsReply.json)
          IN /\ r.status_code = 201 =>
                   IF termsFails THEN res = Raise("ValueError")
                   ELSE IF IsNone(r.json) THEN res = Raise("AcmeError")
                   ELSE /\ res.kind = "RegistrationResult"
                        /\ res.uri = r.location
                        /\ account_uri = r.location
             /\ r.status_code = 409 => res = AccountAlreadyExistsError(r.location)
             /\ r.status_code \notin {201, 409} => res = Raise("AcmeError")

\* C2 witness: a registration answered 201 with a parseable body has returned.
C2_Witness ==
    \E c \in Clients :
       /\ Finished(frame[c], "register")
       /\ The(frame[c].response).status_code = 201
       /\ frame[c].result.kind = "RegistrationResult"
       /\ frame[c].result.uri = Some(RegUrl1)
       /\ account_uri = Some(RegUrl1)

\* C3: a registration answered 409 with the Location u that an earlier
\* registration's 201 assigned raises AccountAlreadyExistsError carrying u,
\* and account.uri is still u.
C3_SecondRegisterExists ==
    \A c \in Clients :
       (/\ Finished(frame[c], "register")
        /\ The(frame[c].response).status_code = 409
        /\ ~IsNone(lastReg)
        /\ The(frame[c].response).location = lastReg) =>
          /\ frame[c].result = AccountAlreadyExistsError(lastReg)
          /\ account_uri = lastReg

\* C3 witness: an account registered at u registers again and is answered
\* 409 with Location u.
C3_Witness ==
    \E c \in Clients :
       /\ Finished(frame[c], "register")
       /\ The(frame[c].response).status_code = 409
       /\ lastReg = Some(RegUrl2)
       /\ The(frame[c].response).location = lastReg
       /\ frame[c].uri0 = lastReg

\* C4 as stated: when a call has ended, account.uri differs from its value at
\* the start of the call only if the call is a register that returned.
C4_UriOnlyOnSuccess ==
    \A c \in Clients :
       (frame[c].pc = "done" /\ account_uri /= frame[c].uri0) =>
          /\ frame[c].op = "register"
          /\ frame[c].result.kind \notin Errors

\* C5: every signed POST of AcmeV2 has url and nonce in its protected header,
\* and the url is the URL the POST is sent to.
C5_ProtectedUrl ==
    \A c \in Clients :
       config[c].version = "v2" =>
          \A i \in DOMAIN frame[c].log :
             LET e == frame[c].log[i]
             IN IsPost(e) =>
                   /\ {"url", "nonce"} \subseteq DOMAIN Protected(e)
                   /\ Protected(e).url = e.url

\* C5 witness: an AcmeV2 POST to an absolute account URI on another host.
C5_Witness ==
    \E c \in Clients :
       /\ config[c].version = "v2"
       /\ frame[c].path = Some(RegUrl2)
       /\ frame[c].log /= <<>>
       /\ IsPost(Last(frame[c].log))
       /\ Last(frame[c].log).url /= RegUrl2

\* C6: url_from_directory(name) returns the value under name in the JSON body
\* of the directory fetch it made, whenever that fetch is answered 200 with a
\* document that holds name.
C6_DirectoryLookup ==
    \A c \in Clients :
       (frame[c].pc = "done" /\ frame[c].op = "url_from_directory") =>
          LET r == frame[c].log[1].reply
          IN (/\ r.status_code = 200
              /\ ~IsNone(r.json)
              /\ frame[c].name \in DOMAIN The(r.json)) =>
                 frame[c].result =
                    Result("value", Some(The(r.json)[frame[c].name]), None, None)

\* C6 witness: after the server replaced its directory, a lookup returned the
\* new document's value.
C6_Witness ==
    \E c \in Clients :
       /\ frame[c].pc = "done" /\ frame[c].op = "url_from_directory"
       /\ srvDirectory = 2
       /\ frame[c].log[1].reply.json = Some(Dir2)
       /\ frame[c].result.uri = Some(Dir2.newNonce)
       /\ Dir2.newNonce /= Dir1.newNonce

\* C7 as stated: every signed POST that AcmeV2's register, new_authorization,
\* issue_certificate or revoke_certificate sends goes to a URL found in a
\* directory document the call fetched.
C7_EndpointsFromDirectory ==
    \A c \in Clients :
       (/\ config[c].version = "v2"
        /\ frame[c].op \in {"register", "new_authorization", "issue_certificate",
                            "revoke_certificate"}) =>
          \A i \in DOMAIN frame[c].log :
             IsPost(frame[c].log[i]) =>
                \E j \in 1..(i - 1) :
                   LET g == frame[c].log[j]
                   IN /\ g.method = "GET" /\ g.reply.status_code = 200
                      /\ ~IsNone(g.reply.json)
                      /\ \E k \in DirNames \cap DOMAIN The(g.reply.json) :
                            frame[c].log[i].url = normalize(config[c].url, The(g.reply.json)[k])

\* C8 as stated: no payload signed by AcmeV2 has a resource field, and every
\* payload signed by Acme has one naming its operation.
ResourceOf(op) ==
    CASE op = "register" -> "new-reg"
      [] op = "get_registration" -> "reg"
      [] op = "update_registration" -> "reg"
      [] op = "new_authorization" -> "new-authz"
      [] op = "validate_authorization" -> "challenge"
      [] op = "issue_certificate" -> "new-cert"
      [] OTHER -> "revoke-cert"
C8_ResourceField ==
    \A c \in Clients :
       \A i \in DOMAIN frame[c].log :
          LET e == frame[c].log[i]
          IN IsPost(e) =>
                IF config[c].version = "v2"
                THEN "resource" \notin DOMAIN Payload(e)
                ELSE /\ "resource" \in DOMAIN Payload(e)
                     /\ Payload(e).resource = ResourceOf(frame[c].op)

\* C9: issue_certificate answered 201 returns the body as certificate and the
\* Location as location; with a Link rel="up" it then sends exactly one
\* unsigned GET to the link's URL and intermediate is that body; without one
\* intermediate is None and the POST is the last request; any other status
\* raises AcmeError and the POST is the last request.
C9_Issuance ==
    \A c \in Clients :
       Finished(frame[c], "issue_certificate") =>
          LET r == The(frame[c].response)
              res == frame[c].result
              log == frame[c].log
              posts == { i \in DOMAIN log : IsPost(log[i]) }
          IN /\ Cardinality(posts) = 1
             /\ IF r.status_code = 201
                THEN /\ res.kind = "IssuanceResult"
                     /\ res.contents = Some(r.content)
                     /\ res.uri = r.location
                     /\ IF ~IsNone(r.link_up)
                        THEN /\ posts = {Len(log) - 1}
                             /\ Last(log).method = "GET"
                             /\ Last(log).url = The(r.link_up)
                             /\ IsNone(Last(log).body)
                             /\ res.aux = Some(Last(log).reply.content)
                        ELSE /\ posts = {Len(log)}
                             /\ IsNone(res.aux)
                ELSE /\ res = Raise("AcmeError")
                     /\ posts = {Len(log)}

\* C9 witness: an issuance answered 201 with Location and Link rel="up" has
\* returned the certificate, the location and the fetched issuer certificate.
C9_Witness ==
    \E c \in Clients :
       /\ Finished(frame[c], "issue_certificate")
       /\ The(frame[c].response).status_code = 201
       /\ The(frame[c].response).link_up = Some(IssuerUrl)
       /\ The(frame[c].response).location = Some(RegUrl1)
       /\ frame[c].result =
             IssuanceResult("certificate", Some(RegUrl1), Some("issuer-certificate"))

\* C10: revoke_certificate returns True exactly when the POST is answered
\* 200; every other status raises AcmeError.
C10_Revoke ==
    \A c \in Clients :
       Finished(frame[c], "revoke_certificate") =>
          LET r == The(frame[c].response)
          IN /\ (frame[c].result = ReturnTrue) <=> (r.status_code = 200)
             /\ r.status_code /= 200 => frame[c].result = Raise("AcmeError")

\* C10 witness: a revocation answered 204 raised AcmeError.
C10_Witness ==
    \E c \in Clients :
       /\ Finished(frame[c], "revoke_certificate")
       /\ The(frame[c].response).status_code = 204
       /\ frame[c].result = Raise("AcmeError")

\* C11 as stated: a request for a server-supplied absolute URL goes to the
\* same target as a request for its path component, and that target is on
\* the base URL's host.
C11_AbsoluteLinkOnBaseHost ==
    \A c \in Clients :
       \A i \in DOMAIN frame[c].log :
          LET e == frame[c].log[i]
              own == IsPost(e) \/ frame[c].op = "get_authorization"
          IN (/\ own
              /\ ~IsNone(frame[c].path)
              /\ The(frame[c].path).scheme \in {"http", "https"}) =>
                 /\ e.url = normalize(config[c].url, urlparse_path(The(frame[c].path)))
                 /\ e.url.scheme = config[c].url.scheme
                 /\ e.url.netloc = config[c].url.netloc

\* C12 as stated: every HTTP request of a client configured with a TLS
\* verification override (a CA bundle or verify=False) is made with that
\* override.
C12_VerifyOnEveryRequest ==
    \A c \in Clients :
       \A i \in DOMAIN frame[c].log :
          LET e == frame[c].log[i]
          IN ~IsNone(config[c].verify) =>
                /\ "verify" \in DOMAIN e.kwargs
                /\ e.kwargs.verify = The(config[c].verify)

\* the statuses for which an operation's POST is taken as success
SuccessStatus(op, st) ==
    IF op \in {"register", "new_authorization", "issue_certificate"} THEN st = 201
    ELSE IF op = "revoke_certificate" THEN st = 200
    ELSE st \in {200, 201, 204}
PostsOf(log) == {i \in DOMAIN log : IsPost(log[i])}

\* C13: a call sends at most one signed POST; when the POST is answered
\* with a non-success status the call sends no further HTTP request and
\* ends by raising AcmeError (or AccountAlreadyExistsError for a 409 to a
\* registration).
C13_NoRetry ==
    \A c \in Clients :
       LET f == frame[c]
       IN /\ Cardinality(PostsOf(f.log)) <= 1
          /\ (Answered(f) /\ ~SuccessStatus(f.op, The(f.response).status_code)) =>
                /\ f.pc = "done"
                /\ IsPost(Last(f.log))
                /\ Last(f.log).reply = The(f.response)
                /\ f.result.kind \in {"AcmeError", "AccountAlreadyExistsError"}

\* C13 witness: an update_registration answered 500 ended with AcmeError
\* after its nonce request and its one POST.
C13_Witness ==
    \E c \in Clients :
       /\ Finished(frame[c], "update_registration")
       /\ The(frame[c].response).status_code = 500
       /\ frame[c].result = Raise("AcmeError")
       /\ Cardinality(PostsOf(frame[c].log)) = 1
       /\ IsPost(Last(frame[c].log))

\* a GET of the directory document by client c's call
IsDirectoryGet(c, e) ==
    /\ e.method = "GET"
    /\ frame[c].op /= "get_authorization"
    /\ e.url = normalize(config[c].url, Rel(<<"", config[c].directory>>))

\* C14 as stated: on an AcmeV2 client, an operation that needs a directory
\* URL and whose directory fetch is answered with a non-200 status sends no
\* POST and ends by raising AcmeError.
C14_DirectoryFailureRaisesAcmeError ==
    \A c \in Clients :
       LET f == frame[c]
       IN (/\ config[c].version = "v2"
           /\ f.op \notin {"", "url_from_directory"}
           /\ f.log /= <<>>
           /\ IsDirectoryGet(c, Last(f.log))
           /\ Last(f.log).reply.status_code /= 200
           /\ PostsOf(f.log) = {}) =>
              /\ f.pc = "done"
              /\ f.result = Raise("AcmeError")

Succeeded(f) == f.result.kind \notin Errors
Is2xx(st) == st \in 200..299

\* C15 as stated: get_registration, update_registration and
\* validate_authorization succeed for every status from 200 to 299 and
\* raise AcmeError for every other; new_authorization succeeds only for 201.
C15_SuccessByStatus ==
    \A c \in Clients :
       LET f == frame[c]
           st == The(f.response).status_code
       IN /\ (/\ f.pc = "done" /\ Answered(f)
              /\ f.op \in {"get_registration", "update_registration",
                           "validate_authorization"}) =>
                 /\ Is2xx(st) => Succeeded(f)
                 /\ ~Is2xx(st) => f.result = Raise("AcmeError")
          /\ Finished(f, "new_authorization") => (Succeeded(f) => st = 201)

\* C15, amended: update_registration and validate_authorization return True
\* for every status from 200 to 299; get_registration returns the parsed
\* body for every such status whose body parses as JSON and raises
\* AcmeError when it does not parse; the three raise AcmeError for every
\* other status; new_authorization succeeds exactly for a 201 whose body
\* parses and raises AcmeError otherwise.
C15_SuccessByStatusAndBody ==
    \A c \in Clients :
       LET f == frame[c]
           r == The(f.response)
           st == r.status_code
       IN /\ (/\ f.pc = "done" /\ Answered(f)
              /\ f.op \in {"update_registration", "validate_authorization"}) =>
                 /\ Is2xx(st) => f.result = ReturnTrue
                 /\ ~Is2xx(st) => f.result = Raise("AcmeError")
          /\ Finished(f, "get_registration") =>
                 /\ (Is2xx(st) /\ ~IsNone(r.json)) =>
                        f.result = Result("json", None, r.json, None)
                 /\ (~Is2xx(st) \/ IsNone(r.json)) => f.result = Raise("AcmeError")
          /\ Finished(f, "new_authorization") =>
                 /\ (st = 201 /\ ~IsNone(r.json)) =>
                        f.result = NewAuthorizationResult(r.json, r.location)
                 /\ (st /= 201 \/ IsNone(r.json)) => f.result = Raise("AcmeError")

\* C15 witness: a get_registration answered 204 with a body that is not
\* JSON raised AcmeError.
C15_Witness ==
    \E c \in Clients :
       /\ Finished(frame[c], "get_registration")
       /\ The(frame[c].response).status_code = 204
       /\ IsNone(The(frame[c].response).json)
       /\ frame[c].result = Raise("AcmeError")

\* C16 as stated: no step of any operation changes a client's url,
\* directory name, verify setting or account key, and the mapping a caller
\* passed to update_registration holds after the call what it held before.
C16_OnlyAccountUriMutated ==
    [][/\ config' = config
       /\ \A c \in Clients : frame'[c].params = frame'[c].params0]_vars

\* the i-th request of client c's call is the nonce request of get_nonce
IsNonceRequest(c, i) ==
    LET f == frame[c]
    IN IF config[c].version = "v2" THEN f.log[i].method = "HEAD"
       ELSE /\ f.log[i].method = "GET"
            /\ f.op /= "get_authorization"
            /\ \A j \in PostsOf(f.log) : j > i

\* C17: when the nonce response carries no Replay-Nonce header, get_nonce
\* yields null, the call goes on to its POST, the POST's protected header
\* has the nonce field with the value null, and the call's outcome follows
\* the status the server gives that POST.
C17_MissingNonceStillPosts ==
    \A c \in Clients :
       LET f == frame[c]
           n == Len(f.log)
       IN /\ (/\ n >= 1
              /\ IsNonceRequest(c, n)
              /\ IsNone(Last(f.log).reply.replay_nonce)
              /\ ~path_raises(f.path)) =>
                 f.pc = "post" /\ IsNone(f.nonce)
          /\ \A i \in PostsOf(f.log) :
                (i >= 2 /\ IsNonceRequest(c, i - 1)
                        /\ IsNone(f.log[i - 1].reply.replay_nonce)) =>
                   /\ "nonce" \in DOMAIN Protected(f.log[i])
                   /\ Protected(f.log[i]).nonce = None
                   /\ f.log[i].reply = The(f.response)
                   /\ ~SuccessStatus(f.op, f.log[i].reply.status_code) =>
                         /\ f.pc = "done"
                         /\ f.result.kind \in {"AcmeError", "AccountAlreadyExistsError"}
                   /\ (/\ SuccessStatus(f.op, f.log[i].reply.status_code)
                       /\ f.op \in {"update_registration", "validate_authorization",
                                    "revoke_certificate"}) =>
                         f.pc = "done" /\ f.result = ReturnTrue

\* C17 witness: a revocation whose nonce response had no Replay-Nonce sent
\* its POST with a null nonce and, answered 200, returned True.
C17_Witness ==
    \E c \in Clients :
       /\ Finished(frame[c], "revoke_certificate")
       /\ Len(frame[c].log) >= 2
       /\ IsPost(Last(frame[c].log))
       /\ IsNone(frame[c].log[Len(frame[c].log) - 1].reply.replay_nonce)
       /\ Protected(Last(frame[c].log)).nonce = None
       /\ The(frame[c].response).status_code = 200
       /\ frame[c].result = ReturnTrue

\* C18 as stated: a call of a public operation makes at most two HTTP
\* round trips, the nonce request and then the operation's POST.
C18_AtMostTwoRoundTrips ==
    \A c \in Clients : Len(frame[c].log) <= 2

\* the HTTP requests one call of an operation can make
RoundTrips(version, op) ==
    CASE op \in {"get_authorization", "url_from_directory"} -> 1
      [] version = "v1" -> IF op = "issue_certificate" THEN 3 ELSE 2
      [] op = "register" -> 5
      [] op = "issue_certificate" -> 4
      [] OTHER -> 3

\* C18, amended: every signed POST is the request right after the call's
\* nonce request, whose response it waited for.  An Acme call makes at most
\* two HTTP requests (nonce, POST), three when issue_certificate fetches
\* the issuer chain; an AcmeV2 call first fetches the directory for the
\* newNonce URL and so makes at most three (directory, nonce, POST), four
\* for issue_certificate with a chain and five for register (directory for
\* newAccount, directory for newNonce, nonce, POST, directory for the
\* terms); get_authorization makes one.
C18_RoundTripsPerCall ==
    \A c \in Clients :
       LET f == frame[c]
       IN /\ f.op /= "" => Len(f.log) <= RoundTrips(config[c].version, f.op)
          /\ \A i \in PostsOf(f.log) :
                /\ i >= 2
                /\ IsNonceRequest(c, i - 1)
                /\ Protected(f.log[i]).nonce = f.log[i - 1].reply.replay_nonce

\* C18 witness: an AcmeV2 register ended after five requests, the POST
\* fourth and right after the HEAD for the nonce.
C18_Witness ==
    \E c \in Clients :
       /\ Finished(frame[c], "register")
       /\ config[c].version = "v2"
       /\ Len(frame[c].log) = 5
       /\ IsPost(frame[c].log[4])
       /\ frame[c].log[3].method = "HEAD"

\* C19: a get_authorization call sends exactly one request, a GET without
\* body (so without nonce or signature) to path(uri); whatever the status,
\* it returns the parsed JSON body, and raises AcmeError when the body does
\* not parse.
C19_GetAuthorization ==
    \A c \in Clients :
       LET f == frame[c]
       IN f.op = "get_authorization" =>
             /\ Len(f.log) <= 1
             /\ PostsOf(f.log) = {}
             /\ IsNone(f.nonce)
             /\ f.pc = "done" =>
                  LET e == f.log[1]
                  IN /\ Len(f.log) = 1
                     /\ e.method = "GET"
                     /\ IsNone(e.body)
                     /\ e.kwargs.headers = DEFAULT_HEADERS
                     /\ e.url = normalize(config[c].url, The(f.arg))
                     /\ f.result = IF IsNone(e.reply.json) THEN Raise("AcmeError")
                                   ELSE Result("json", None, e.reply.json, None)

\* C19 witness: a get_authorization answered 500 with a JSON body returned
\* that body.
C19_Witness ==
    \E c \in Clients :
       /\ frame[c].op = "get_authorization"
       /\ frame[c].pc = "done"
       /\ frame[c].log[1].reply.status_code = 500
       /\ frame[c].result = Result("json", None, Some("document"), None)

\* C20: the nonce lives in the call, not in the client or the account: with
\* calls on two clients of one account interleaved, a call waiting to send
\* its POST still holds the nonce of its own nonce request, every POST
\* carries the nonce its own call fetched just before it, and, when the
\* server has issued only new nonces, the POSTs of the two running calls
\* carry different nonces.
C20_OwnNoncePerCall ==
    \A c \in Clients :
       LET f == frame[c]
       IN /\ f.pc = "post" =>
                /\ IsNonceRequest(c, Len(f.log))
                /\ f.nonce = Last(f.log).reply.replay_nonce
          /\ \A i \in PostsOf(f.log) :
                /\ i >= 2
                /\ IsNonceRequest(c, i - 1)
                /\ Protected(f.log[i]).nonce = f.log[i - 1].reply.replay_nonce
                /\ srvFresh =>
                      \A d \in Clients \ {c} :
                         \A j \in PostsOf(frame[d].log) :
                            Protected(frame[d].log[j]).nonce /= Protected(f.log[i]).nonce

\* C20 witness: one call fetched nonce 1, the other then fetched nonce 2
\* and sent its POST with it, and the first call's POST, sent last, still
\* carried nonce 1.
C20_Witness ==
    \E c \in Clients, d \in Clients :
       /\ c /= d
       /\ PostsOf(frame[c].log) /= {}
       /\ PostsOf(frame[d].log) /= {}
       /\ Protected(Last(frame[c].log)).nonce = Some(1)
       /\ Protected(Last(frame[d].log)).nonce = Some(2)
       /\ lastPost = Some(Some(1))
====
